---- MODULE Spec2Model ----
(***************************************************************************)
(* Yolov5TrainingPipeline (pipeline_cv.py): dataset download and           *)
(* extraction, class-count reading, model-config rendering and the         *)
(* training child process, with the exception wrapping around each step.   *)
(*                                                                         *)
(* The working directory is the state: the archive ./yolov5pytorch.zip,    *)
(* ./data.yaml, the extracted dataset, the directory yolov5 and the        *)
(* config files under yolov5/models.  A caller invokes the public methods  *)
(* in any order; initialize_pipeline runs its four steps one action each.  *)
(* Strings that the code takes apart (the URL) are sequences of            *)
(* one-character strings; paths are sequences of components; exceptions    *)
(* are chains of type names, outermost first.                              *)
(***************************************************************************)
EXTENDS Integers, Sequences, FiniteSets, TLC

VARIABLES
    url,         \* self.url
    prefix,      \* self.prefix
    pc,          \* where initialize_pipeline stands: "idle" or the step to run next
    num_classes, \* initialize_pipeline's local num_classes (line 227)
    archive,     \* ./yolov5pytorch.zip: <<>> when absent, else <<payload>>
    dataYaml,    \* ./data.yaml
    dataset,     \* the extracted dataset is in the working directory
    yolov5Dir,   \* the directory ./yolov5 exists
    cfgFiles,    \* the files yolov5/models/<filename>
    top,         \* history: the public method the caller called last
    calls,       \* number of calls the caller still makes
    trace,       \* history: steps entered and I/O done since that call began
    fetched,     \* history: URLs handed to gdown.download since that call began
    children,    \* history: child processes spawned since that call began
    args,        \* history: url and prefix of the last download_data_from_drive
    step,        \* history: the step method that ran last
    raised,      \* what that step method raised (<<>>: it returned)
    exc,         \* what the caller received from its call (<<>>: it returned)
    written,     \* history: per config file, the class counts rendered into it
    lastGen      \* history: the filename of the last generate_yolov5m_config
                 \* that wrote its file ("": none did)

vars == <<url, prefix, pc, num_classes, archive, dataYaml, dataset, yolov5Dir, cfgFiles, top,
          calls, trace, fetched, children, args, step, raised, exc, written,
          lastGen>>

fsVars == <<archive, dataYaml, dataset, yolov5Dir, cfgFiles>>

(***************************************************************************)
(* Bounds                                                                  *)
(***************************************************************************)
MaxUrlLen == 3
MaxNc == 10
MaxCalls == 3

(***************************************************************************)
(* Strings and paths                                                       *)
(***************************************************************************)
UrlChars == {"/", "a", "b"}

\* The URLs and prefixes a caller passes, as sequences of characters.
Urls == UNION {[1..n -> UrlChars] : n \in 0..MaxUrlLen}

Prefixes == {<<"P">>, <<"Q", "=">>}

NoArgs == [url |-> <<>>, prefix |-> <<>>]

\* str.split("/"): the segments between the separators, empty ones included.
RECURSIVE Split(_)
Split(s) ==
    IF s = <<>> THEN << <<>> >>
    ELSE LET rest == Split(Tail(s)) IN
         IF Head(s) = "/" THEN << <<>> >> \o rest
         ELSE << <<Head(s)>> \o rest[1] >> \o Tail(rest)

\* Variant of Index: the last element whatever k, as [-1] would take.
IndexLast(seq, k) == seq[Len(seq)]

\* seq[k] for a negative k, as Python indexes from the end: an IndexError
\* unless HasIndex.
HasIndex(seq, k) == Len(seq) >= -k

Index(seq, k) == seq[Len(seq) + k + 1]

\* Variant of Str: the last digit only.
StrLastDigit(n) == <<"0", "1", "2", "3", "4", "5", "6", "7", "8", "9">>[(n % 10) + 1]

Digit(d) == <<"0", "1", "2", "3", "4", "5", "6", "7", "8", "9">>[d + 1]

\* str(n) of a non-negative int: its decimal digits.
RECURSIVE Str(_)
Str(n) == IF n < 10 THEN Digit(n) ELSE Str(n \div 10) \o Digit(n % 10)

\* A relative path resolved against a directory, as the shell's cd and the
\* child's open() resolve it.
RECURSIVE Resolve(_, _)
Resolve(cwd, path) ==
    IF path = <<>> THEN cwd
    ELSE IF Head(path) = "." THEN Resolve(cwd, Tail(path))
    ELSE IF Head(path) = ".." THEN
         Resolve(IF cwd = <<>> THEN <<>> ELSE SubSeq(cwd, 1, Len(cwd) - 1), Tail(path))
    ELSE Resolve(Append(cwd, Head(path)), Tail(path))

(***************************************************************************)
(* Exceptions                                                              *)
(***************************************************************************)
\* The subclasses of Exception the steps' library calls raise.
LibraryExceptions ==
    {"IndexError", "FileURLRetrievalError", "FileNotFoundError", "BadZipFile",
     "YAMLError", "KeyError", "TypeError", "PermissionError", "OSError",
     "CalledProcessError"}

\* The domain exception of src.DermaCareNet.exception, an Exception too.
DomainExceptions == {"ComputerVisionYolov5Exception"}

\* ComputerVisionYolov5Exception(e, sys): the domain exception around cause e.
Wrap(e) == <<"ComputerVisionYolov5Exception">> \o e

\* isinstance(e, clause) for an except clause.
IsInstance(type, clause) ==
    \/ clause = type
    \/ clause = "Exception" /\ type \in LibraryExceptions \cup DomainExceptions

\* try: ... except <clauses> as e: raise ComputerVisionYolov5Exception(e, sys)
\* around a body that ended with e (<<>>: it ended normally).
Try(clauses, e) ==
    IF e = <<>> THEN <<>>
    ELSE IF \E c \in clauses : IsInstance(e[1], c) THEN Wrap(e)
    ELSE e

(***************************************************************************)
(* Files                                                                   *)
(***************************************************************************)
\* Class counts: those of the documented examples and a two-digit one.
NcRange == {2, 5, MaxNc}

\* A data.yaml: absent, not YAML, YAML that is no mapping, a mapping without
\* nc, or a mapping with nc.
Doc(kind, nc) == [kind |-> kind, nc |-> nc]

YamlDocs ==
    {Doc(k, 0) : k \in {"absent", "invalid", "nomap", "nokey"}}
        \cup {Doc("ok", n) : n \in NcRange}

\* What the drive serves: a zip archive (with or without a data.yaml in it)
\* or something that is no archive.
Payloads ==
    {[zip |-> TRUE, yaml |-> d] : d \in YamlDocs}
        \cup {[zip |-> FALSE, yaml |-> Doc("absent", 0)]}

L(indent, text) == [indent |-> indent, text |-> text]

NoFile == [exists |-> FALSE, lines |-> <<>>]

File(lines) == [exists |-> TRUE, lines |-> lines]

\* A config file left by something else than generate_yolov5m_config.
StaleFile == File(<<L(0, "nc: 80")>>)

DefaultFilename == "custom_yolov5m.yaml"

Filenames == {DefaultFilename, "other.yaml"}

\* Path("yolov5") / "models" / filename
OutputPath(filename) == <<"yolov5", "models", filename>>

ConfigPaths == {OutputPath(f) : f \in Filenames}

\* The f-string of generate_yolov5m_config before dedent: each line with its
\* leading spaces counted and the rest verbatim.
Template(text) ==
    <<
       L(16, "# Ultralytics AGPL-3.0 License - https://ultralytics.com/license"),
       L(0, ""),
       L(16, "# Parameters"),
       L(16, "nc: " \o text \o " # number of classes"),
       L(16, "depth_multiple: 0.67 # model depth multiple"),
       L(16, "width_multiple: 0.75 # layer channel multiple"),
       L(16, "anchors:"),
       L(18, "- [10, 13, 16, 30, 33, 23] # P3/8"),
       L(18, "- [30, 61, 62, 45, 59, 119] # P4/16"),
       L(18, "- [116, 90, 156, 198, 373, 326] # P5/32                "),
       L(0, ""),
       L(16, "# YOLOv5 v6.0 backbone"),
       L(16, "backbone:"),
       L(18, "# [from, number, module, args]"),
       L(18, "["),
       L(20, "[-1, 1, Conv, [64, 6, 2, 2]], # 0-P1/2"),
       L(20, "[-1, 1, Conv, [128, 3, 2]], # 1-P2/4"),
       L(20, "[-1, 3, C3, [128]],"),
       L(20, "[-1, 1, Conv, [256, 3, 2]], # 3-P3/8"),
       L(20, "[-1, 6, C3, [256]],"),
       L(20, "[-1, 1, Conv, [512, 3, 2]], # 5-P4/16"),
       L(20, "[-1, 9, C3, [512]],"),
       L(20, "[-1, 1, Conv, [1024, 3, 2]], # 7-P5/32"),
       L(20, "[-1, 3, C3, [1024]],"),
       L(20, "[-1, 1, SPPF, [1024, 5]], # 9"),
       L(18, "]                "),
       L(0, ""),
       L(16, "# YOLOv5 v6.0 head"),
       L(16, "head: ["),
       L(20, "[-1, 1, Conv, [512, 1, 1]],"),
       L(20, "[-1, 1, nn.Upsample, [None, 2, \"nearest\"]],"),
       L(20, "[[-1, 6], 1, Concat, [1]], # cat backbone P4"),
       L(20, "[-1, 3, C3, [512, False]], # 13                "),
       L(0, ""),
       L(20, "[-1, 1, Conv, [256, 1, 1]],"),
       L(20, "[-1, 1, nn.Upsample, [None, 2, \"nearest\"]],"),
       L(20, "[[-1, 4], 1, Concat, [1]], # cat backbone P3"),
       L(20, "[-1, 3, C3, [256, False]], # 17 (P3/8-small)                "),
       L(0, ""),
       L(20, "[-1, 1, Conv, [256, 3, 2]],"),
       L(20, "[[-1, 14], 1, Concat, [1]], # cat head P4"),
       L(20, "[-1, 3, C3, [512, False]], # 20 (P4/16-medium)                "),
       L(0, ""),
       L(20, "[-1, 1, Conv, [512, 3, 2]],"),
       L(20, "[[-1, 10], 1, Concat, [1]], # cat head P5"),
       L(20, "[-1, 3, C3, [1024, False]], # 23 (P5/32-large)                "),
       L(0, ""),
       L(20, "[[17, 20, 23], 1, Detect, [nc, anchors]], # Detect(P3, P4, P5)"),
       L(18, "]"),
       L(16, "")
    >>

Min(S) == CHOOSE x \in S : \A y \in S : x <= y

\* textwrap.dedent: lines of whitespace only become empty, the others lose
\* the leading whitespace they all share.
Dedent(lines) ==
    LET inked == {i \in 1..Len(lines) : lines[i].text # ""}
        margin == IF inked = {} THEN 0 ELSE Min({lines[i].indent : i \in inked})
    IN [i \in 1..Len(lines) |->
           IF lines[i].text = "" THEN L(0, "")
           ELSE L(lines[i].indent - margin, lines[i].text)]

(***************************************************************************)
(* download_data_from_drive                                                *)
(***************************************************************************)
\* gdown.download: it saves the payload, raises, or returns None having saved
\* nothing.
GdownOutcomes ==
    {[out |-> "saved", payload |-> p] : p \in Payloads}
        \cup {[out |-> o, payload |-> [zip |-> FALSE, yaml |-> Doc("absent", 0)]] :
                  o \in {"error", "none"}}

DownloadHandlers == {"Exception"}

\* The body of the try block (lines 54-67) with the library's outcome given:
\* what it leaves in the working directory, the I/O it did, the URL it
\* fetched and the exception it ended with.
DownloadBody(a_url, a_prefix, out, payload) ==
    LET segs == Split(a_url)
        same == [archive |-> archive, dataYaml |-> dataYaml, dataset |-> dataset,
                 events |-> <<>>, fetched |-> <<>>, error |-> <<>>]
    IN
    IF ~HasIndex(segs, -2) THEN [same EXCEPT !.error = <<"IndexError">>]
    ELSE
        LET file_id == Index(segs, -2)
            target == a_prefix \o file_id
            got == IF out = "saved" THEN <<payload>> ELSE archive
            tried == [same EXCEPT !.events = <<"fetch">>, !.fetched = <<target>>]
        IN
        IF out = "error" THEN [tried EXCEPT !.error = <<"FileURLRetrievalError">>]
        ELSE IF got = <<>> THEN [tried EXCEPT !.error = <<"FileNotFoundError">>]
        ELSE IF ~got[1].zip THEN
            [tried EXCEPT !.archive = got, !.error = <<"BadZipFile">>]
        ELSE
            [tried EXCEPT
                !.archive = <<>>,
                !.dataYaml = IF got[1].yaml.kind = "absent" THEN dataYaml
                             ELSE got[1].yaml,
                !.dataset = TRUE,
                !.events = <<"fetch", "extractall", "remove">>]

download_data_from_drive(a_url, a_prefix) ==
    \E g \in GdownOutcomes :
      \E r \in {DownloadBody(a_url, a_prefix, g.out, g.payload)} :
        /\ archive' = r.archive
        /\ dataYaml' = r.dataYaml
        /\ dataset' = r.dataset
        /\ trace' = <<"download_data_from_drive">> \o r.events
        /\ fetched' = r.fetched
        /\ children' = <<>>
        /\ args' = [url |-> a_url, prefix |-> a_prefix]
        /\ num_classes' = ""
        /\ step' = "download_data_from_drive"
        /\ raised' = Try(DownloadHandlers, r.error)
        /\ UNCHANGED <<yolov5Dir, cfgFiles, written, lastGen>>

(***************************************************************************)
(* extract_num_class_in_yaml                                               *)
(***************************************************************************)
ExtractHandlers == {"Exception"}

\* Lines 85-88: open data.yaml, yaml.safe_load(stream)['nc'], str().
ExtractBody ==
    CASE dataYaml.kind = "absent" ->
             [events |-> <<>>, value |-> "", error |-> <<"FileNotFoundError">>]
      [] dataYaml.kind = "invalid" ->
             [events |-> <<"read data.yaml">>, value |-> "", error |-> <<"YAMLError">>]
      [] dataYaml.kind = "nomap" ->
             [events |-> <<"read data.yaml">>, value |-> "", error |-> <<"TypeError">>]
      [] dataYaml.kind = "nokey" ->
             [events |-> <<"read data.yaml">>, value |-> "", error |-> <<"KeyError">>]
      [] OTHER ->
             [events |-> <<"read data.yaml">>, value |-> Str(dataYaml.nc),
              error |-> <<>>]

\* fresh: the caller calls the method itself (initialize_pipeline does not).
extract_num_class_in_yaml(fresh) ==
    \E r \in {ExtractBody} :
    /\ num_classes' = r.value
    /\ trace' = (IF fresh THEN <<>> ELSE trace)
                    \o <<"extract_num_class_in_yaml">> \o r.events
    /\ fetched' = IF fresh THEN <<>> ELSE fetched
    /\ children' = IF fresh THEN <<>> ELSE children
    /\ args' = IF fresh THEN NoArgs ELSE args
    /\ step' = "extract_num_class_in_yaml"
    /\ raised' = Try(ExtractHandlers, r.error)
    /\ UNCHANGED <<fsVars, written, lastGen>>

(***************************************************************************)
(* generate_yolov5m_config                                                 *)
(***************************************************************************)
GenerateHandlers == {"Exception"}

\* mkdir(parents=True, exist_ok=True) and open(output_path, "w") succeed or
\* fail as the file system decides.
GenerateOutcomes == {"written", "mkdir fails", "open fails"}

\* Variant of WriteFile: the file opened with "a" instead of "w".
AppendFile(old, config_content) == File(old.lines \o config_content)

\* open(output_path, "w") followed by f.write(config_content): the file's
\* content afterwards.
WriteFile(old, config_content) == File(config_content)

\* Lines 108-164: render, create the directories, write the file.
GenerateBody(text, filename, out) ==
    LET config_content == Dedent(Template(text))
        output_path == OutputPath(filename)
        same == [yolov5Dir |-> yolov5Dir, cfgFiles |-> cfgFiles, events |-> <<>>,
                 wrote |-> <<>>, error |-> <<>>]
    IN
    CASE out = "mkdir fails" -> [same EXCEPT !.error = <<"PermissionError">>]
      [] out = "open fails" ->
             [same EXCEPT !.yolov5Dir = TRUE, !.events = <<"mkdir">>,
                          !.error = <<"OSError">>]
      [] OTHER ->
             [same EXCEPT
                 !.yolov5Dir = TRUE,
                 !.cfgFiles = [cfgFiles EXCEPT ![output_path] =
                                   WriteFile(cfgFiles[output_path], config_content)],
                 !.events = <<"mkdir", "write config">>,
                 !.wrote = output_path]

generate_yolov5m_config(fresh, text, filename) ==
    \E out \in GenerateOutcomes :
      \E r \in {GenerateBody(text, filename, out)} :
        /\ yolov5Dir' = r.yolov5Dir
        /\ cfgFiles' = r.cfgFiles
        /\ trace' = (IF fresh THEN <<>> ELSE trace)
                        \o <<"generate_yolov5m_config">> \o r.events
        /\ fetched' = IF fresh THEN <<>> ELSE fetched
        /\ children' = IF fresh THEN <<>> ELSE children
        /\ args' = IF fresh THEN NoArgs ELSE args
        /\ num_classes' = IF fresh THEN "" ELSE num_classes
        /\ step' = "generate_yolov5m_config"
        /\ raised' = Try(GenerateHandlers, r.error)
        /\ written' = IF r.wrote = <<>> THEN written
                      ELSE [written EXCEPT ![r.wrote] = Append(@, text)]
        /\ lastGen' = IF r.wrote = <<>> THEN lastGen ELSE filename
        /\ UNCHANGED <<archive, dataYaml, dataset>>

(***************************************************************************)
(* yolo5m_training                                                         *)
(***************************************************************************)
\* Variant of TrainingHandlers: the first except clause alone.
OnlyCalledProcessError == {"CalledProcessError"}

\* except subprocess.CalledProcessError (line 203), except Exception (206).
TrainingHandlers == {"CalledProcessError", "Exception"}

\* subprocess.run(cmd, shell=True, check=True): the child exits 0, exits 1,
\* or could not be started at all.
RunOutcomes == {"exit 0", "exit 1", "not started"}

\* Variant of CfgFlag: the config looked for beside train.py.
CfgFlagNoModels == <<".", "custom_yolov5m.yaml">>

\* The --cfg flag of the command line (line 194).
CfgFlag == <<".", "models", "custom_yolov5m.yaml">>

\* The command line of lines 188-198, flag by flag; "cd yolov5 &&" is cd.
Cmd(img_size, batch, epochs, data_yaml, yolo5m) ==
    [cd |-> <<"yolov5">>, img |-> img_size, batch |-> batch, epochs |-> epochs,
     data |-> data_yaml, cfg |-> CfgFlag, weights |-> yolo5m,
     name |-> "yolov5m_640_results", cache |-> TRUE]

\* The file a path names, for the trainer that opens it.
FileAt(path) == IF path \in ConfigPaths THEN cfgFiles[path] ELSE NoFile

\* The child process: the shell changes directory and, if that worked, runs
\* train.py, which opens the files its --cfg and --data flags name.
Child(cmd, out) ==
    LET cdOk == yolov5Dir
        cwd == Resolve(<<>>, cmd.cd)
    IN [cmd |-> cmd,
        ran |-> cdOk,
        cfgPath |-> IF cdOk THEN Resolve(cwd, cmd.cfg) ELSE <<>>,
        cfgRead |-> IF cdOk THEN FileAt(Resolve(cwd, cmd.cfg)) ELSE NoFile,
        dataPath |-> IF cdOk THEN Resolve(cwd, cmd.data) ELSE <<>>,
        status |-> IF cdOk /\ out = "exit 0" THEN 0 ELSE 1]

\* Lines 188-201.
TrainingBody(img_size, batch, epochs, data_yaml, yolo5m, out) ==
    LET cmd == Cmd(img_size, batch, epochs, data_yaml, yolo5m) IN
    IF out = "not started" THEN
        [events |-> <<>>, children |-> <<>>, error |-> <<"OSError">>]
    ELSE
        LET child == Child(cmd, out) IN
        [events |-> <<"spawn">>, children |-> <<child>>,
         error |-> IF child.status # 0 THEN <<"CalledProcessError">> ELSE <<>>]

yolo5m_training(fresh, img_size, batch, epochs, data_yaml, yolo5m) ==
    \E out \in RunOutcomes :
      \E r \in {TrainingBody(img_size, batch, epochs, data_yaml, yolo5m, out)} :
        /\ trace' = (IF fresh THEN <<>> ELSE trace)
                        \o <<"yolo5m_training">> \o r.events
        /\ children' = (IF fresh THEN <<>> ELSE children) \o r.children
        /\ fetched' = IF fresh THEN <<>> ELSE fetched
        /\ args' = IF fresh THEN NoArgs ELSE args
        /\ num_classes' = IF fresh THEN "" ELSE num_classes
        /\ step' = "yolo5m_training"
        /\ raised' = Try(TrainingHandlers, r.error)
        /\ UNCHANGED <<fsVars, written, lastGen>>

(***************************************************************************)
(* initialize_pipeline, one action per step                                *)
(***************************************************************************)
\* Variant of PipelineHandlers: no except clause around the four calls.
NoHandlers == {}

PipelineHandlers == {"Exception"}

\* Variant of StepAfter: the config generated before the class count is read.
StepAfterSwapped(s) ==
    CASE s = "download_data_from_drive" -> "generate_yolov5m_config"
      [] s = "generate_yolov5m_config" -> "extract_num_class_in_yaml"
      [] s = "extract_num_class_in_yaml" -> "yolo5m_training"
      [] OTHER -> "idle"

\* The order of the calls in the try block (lines 226-235).
StepAfter(s) ==
    CASE s = "download_data_from_drive" -> "extract_num_class_in_yaml"
      [] s = "extract_num_class_in_yaml" -> "generate_yolov5m_config"
      [] s = "generate_yolov5m_config" -> "yolo5m_training"
      [] OTHER -> "idle"

\* Variant of Continue: the next line runs although the step raised.
ContinueRegardless(s) ==
    /\ exc' = Try({"Exception"}, raised')
    /\ pc' = IF s = "download_data_from_drive" THEN "extract_num_class_in_yaml"
             ELSE IF s = "extract_num_class_in_yaml" THEN "generate_yolov5m_config"
             ELSE IF s = "generate_yolov5m_config" THEN "yolo5m_training"
             ELSE "idle"

\* What follows a step of the try block: the next line if it returned, the
\* handler of lines 236-237 if it raised.
Continue(s) ==
    /\ exc' = Try(PipelineHandlers, raised')
    /\ pc' = IF raised' = <<>> THEN StepAfter(s) ELSE "idle"

\* The caller calls initialize_pipeline, which runs line 226.
PipelineDownload ==
    /\ pc = "idle"
    /\ calls > 0
    /\ download_data_from_drive(url, prefix)
    /\ top' = "initialize_pipeline"
    /\ calls' = calls - 1
    /\ Continue("download_data_from_drive")
    /\ UNCHANGED <<url, prefix>>

PipelineExtract ==
    /\ pc = "extract_num_class_in_yaml"
    /\ extract_num_class_in_yaml(FALSE)
    /\ Continue("extract_num_class_in_yaml")
    /\ UNCHANGED <<url, prefix, top, calls>>

PipelineGenerate ==
    /\ pc = "generate_yolov5m_config"
    /\ generate_yolov5m_config(FALSE, num_classes, DefaultFilename)
    /\ Continue("generate_yolov5m_config")
    /\ UNCHANGED <<url, prefix, top, calls>>

\* Variant of PipelineTraining: --data data.yaml, without the "..".
PipelineTrainingLocalData ==
    /\ pc = "yolo5m_training"
    /\ yolo5m_training(FALSE, 640, 8, 2, <<"data.yaml">>, "yolov5m.pt")
    /\ Continue("yolo5m_training")
    /\ UNCHANGED <<url, prefix, top, calls>>

PipelineTraining ==
    /\ pc = "yolo5m_training"
    /\ yolo5m_training(FALSE, 640, 8, 2, <<"..", "data.yaml">>, "yolov5m.pt")
    /\ Continue("yolo5m_training")
    /\ UNCHANGED <<url, prefix, top, calls>>

(***************************************************************************)
(* The caller calling a step method itself                                 *)
(***************************************************************************)
\* Arguments a caller gives yolo5m_training: the pipeline's and others.
TrainArgs ==
    {<<640, 8, 2, <<"..", "data.yaml">>, "yolov5m.pt">>,
     <<320, 16, 50, <<"data.yaml">>, "yolov5s.pt">>}

Called(method) ==
    /\ pc = "idle"
    /\ calls > 0
    /\ top' = method
    /\ calls' = calls - 1
    /\ exc' = raised'
    /\ pc' = "idle"
    /\ UNCHANGED <<url, prefix>>

\* The caller passes the url and prefix it constructed the pipeline with.
CallDownload ==
    /\ download_data_from_drive(url, prefix)
    /\ Called("download_data_from_drive")

CallExtract ==
    /\ extract_num_class_in_yaml(TRUE)
    /\ Called("extract_num_class_in_yaml")

CallGenerate ==
    /\ \E n \in NcRange, filename \in Filenames :
           generate_yolov5m_config(TRUE, Str(n), filename)
    /\ Called("generate_yolov5m_config")

CallTraining ==
    /\ \E a \in TrainArgs : yolo5m_training(TRUE, a[1], a[2], a[3], a[4], a[5])
    /\ Called("yolo5m_training")

(***************************************************************************)
(* Specification                                                           *)
(***************************************************************************)
\* A working directory before the first call: no archive, perhaps a data.yaml
\* and config files left by earlier work.
InitDir ==
    /\ pc = "idle"
    /\ num_classes = ""
    /\ archive = <<>>
    /\ dataYaml \in {Doc("absent", 0), Doc("ok", 1)}
    /\ dataset = FALSE
    /\ \/ yolov5Dir = FALSE /\ cfgFiles = [p \in ConfigPaths |-> NoFile]
       \/ yolov5Dir = TRUE /\ cfgFiles = [p \in ConfigPaths |-> StaleFile]
    /\ top = ""
    /\ trace = <<>>
    /\ fetched = <<>>
    /\ children = <<>>
    /\ args = NoArgs
    /\ step = ""
    /\ raised = <<>>
    /\ exc = <<>>
    /\ written = [p \in ConfigPaths |-> <<>>]
    /\ lastGen = ""

\* A caller that makes MaxCalls calls on a pipeline constructed with one of
\* two URLs: one with a file identifier in it, one without.
Init ==
    /\ InitDir
    /\ url \in {<<"a", "/", "b">>, <<"a", "b">>}
    /\ prefix = <<"P", "=">>
    /\ calls = MaxCalls

\* A caller that makes one call on a pipeline constructed with any URL and
\* prefix.
InitUrl ==
    /\ InitDir
    /\ url \in Urls
    /\ prefix \in Prefixes
    /\ calls = 1

Next ==
    \/ PipelineDownload
    \/ PipelineExtract
    \/ PipelineGenerate
    \/ PipelineTraining
    \/ CallDownload
    \/ CallExtract
    \/ CallGenerate
    \/ CallTraining

Spec == Init /\ [][Next]_vars

SpecUrl == InitUrl /\ [][Next]_vars

(***************************************************************************)
(* Properties                                                              *)
(***************************************************************************)
StepNames ==
    {"download_data_from_drive", "extract_num_class_in_yaml",
     "generate_yolov5m_config", "yolo5m_training"}

PipelineOrder ==
    <<"download_data_from_drive", "extract_num_class_in_yaml",
      "generate_yolov5m_config", "yolo5m_training">>

IsStepName(e) == e \in StepNames

\* The steps entered since the caller's call began, in order.
StepsEntered == SelectSeq(trace, IsStepName)

IsPrefix(s, t) == Len(s) <= Len(t) /\ SubSeq(t, 1, Len(s)) = s

\* Every occurrence of event b in the trace has an event a before it.
Precedes(a, b) ==
    \A j \in DOMAIN trace :
        trace[j] = b => \E i \in 1..(j - 1) : trace[i] = a

InRun == top = "initialize_pipeline"

Wrapper == "ComputerVisionYolov5Exception"

\* C1: at every point of a run of initialize_pipeline the steps entered so
\* far are an initial part of download_data_from_drive,
\* extract_num_class_in_yaml, generate_yolov5m_config, yolo5m_training, and
\* data.yaml is read only after the archive was extracted, the config file
\* written only after data.yaml was read, the child spawned only after the
\* config file was written.
C1_StepsInOrder ==
    InRun =>
        /\ IsPrefix(StepsEntered, PipelineOrder)
        /\ Precedes("extractall", "read data.yaml")
        /\ Precedes("read data.yaml", "write config")
        /\ Precedes("write config", "spawn")

\* A run that went through all four steps and spawned the child.
C1_Witness ==
    /\ InRun
    /\ StepsEntered = PipelineOrder
    /\ trace[Len(trace)] = "spawn"

\* C2: in a run of initialize_pipeline no step is entered twice and no I/O
\* is done twice (no retry, no re-fetch), and once a step has raised the run
\* is over: the step that raised is the last one entered, and no step is
\* left to run.
C2_FirstFailureAborts ==
    InRun =>
        /\ \A i, j \in DOMAIN trace : trace[i] = trace[j] => i = j
        /\ raised # <<>> =>
               /\ pc = "idle"
               /\ StepsEntered[Len(StepsEntered)] = step
               /\ exc # <<>>

\* A run whose third step failed after the first two had done their work.
C2_Witness ==
    /\ InRun
    /\ raised # <<>>
    /\ step = "generate_yolov5m_config"
    /\ pc = "idle"

\* The number of ComputerVisionYolov5Exception layers around the cause.
RECURSIVE WrapDepth(_)
WrapDepth(e) ==
    IF e = <<>> \/ e[1] # Wrapper THEN 0 ELSE 1 + WrapDepth(Tail(e))

\* C3 as stated: what the caller of initialize_pipeline receives is the very
\* exception the failing step raised, the cause wrapped exactly once.
C3_Original ==
    (InRun /\ exc # <<>>) => (exc = raised /\ WrapDepth(exc) = 1)

\* C3 as amended: the caller of initialize_pipeline receives a new
\* ComputerVisionYolov5Exception around the exception the failing step
\* raised, so the original cause is wrapped twice; only a step method called
\* directly delivers its own exception.
C3_WrappedTwice ==
    /\ (InRun /\ raised # <<>>) =>
           (exc = <<Wrapper>> \o raised /\ WrapDepth(exc) = 2
                /\ WrapDepth(raised) = 1)
    /\ (InRun /\ raised = <<>>) => exc = <<>>
    /\ ~InRun => exc = raised

\* A run whose last step failed on the child's exit status.
C3_Witness ==
    /\ InRun
    /\ step = "yolo5m_training"
    /\ exc = <<Wrapper, Wrapper, "CalledProcessError">>

\* The causes each step's library calls raise.
Causes(s) ==
    CASE s = "download_data_from_drive" ->
             {"IndexError", "FileURLRetrievalError", "FileNotFoundError", "BadZipFile"}
      [] s = "extract_num_class_in_yaml" ->
             {"FileNotFoundError", "YAMLError", "TypeError", "KeyError"}
      [] s = "generate_yolov5m_config" -> {"PermissionError", "OSError"}
      [] s = "yolo5m_training" -> {"CalledProcessError", "OSError"}
      [] OTHER -> {}

\* C4: a step method either returns or raises ComputerVisionYolov5Exception
\* around the original cause, whatever failed: no identifier in the URL, the
\* fetch, the extraction, data.yaml absent, not YAML, not a mapping or
\* without nc, the config destination, a child that exits non-zero.
C4_TwoOutcomes ==
    /\ raised # <<>> =>
           /\ Len(raised) = 2
           /\ raised[1] = Wrapper
           /\ raised[2] \in Causes(step)
    /\ (step = "download_data_from_drive" /\ archive # <<>>) =>
           raised \in {<<Wrapper, "BadZipFile">>, <<Wrapper, "FileURLRetrievalError">>}
    /\ step = "extract_num_class_in_yaml" =>
           /\ dataYaml.kind = "absent" => raised = <<Wrapper, "FileNotFoundError">>
           /\ dataYaml.kind = "invalid" => raised = <<Wrapper, "YAMLError">>
           /\ dataYaml.kind = "nomap" => raised = <<Wrapper, "TypeError">>
           /\ dataYaml.kind = "nokey" => raised = <<Wrapper, "KeyError">>
           /\ dataYaml.kind = "ok" => raised = <<>>
    /\ (step = "yolo5m_training" /\ children # <<>>) =>
           IF children[Len(children)].status = 0 THEN raised = <<>>
           ELSE raised = <<Wrapper, "CalledProcessError">>

\* The child could not be started: the second except clause of
\* yolo5m_training wrapped the OSError.
C4_Witness ==
    /\ step = "yolo5m_training"
    /\ raised = <<Wrapper, "OSError">>

\* C5 as stated: whenever no download_data_from_drive is under way (it is one
\* action, so in every state) the archive file is gone.
C5_ArchiveGone == archive = <<>>

ToRange(s) == {s[i] : i \in DOMAIN s}

Max(S) == CHOOSE x \in S : \A y \in S : y <= x

Last(s) == s[Len(s)]

\* The nc line of a rendered config.
NcLine(text) == L(0, "nc: " \o text \o " # number of classes")

NcLineNo == 4

DefaultPath == <<"yolov5", "models", "custom_yolov5m.yaml">>

\* initialize_pipeline returned: all four steps ran and none raised.
RunSucceeded ==
    /\ InRun
    /\ pc = "idle"
    /\ step = "yolo5m_training"
    /\ raised = <<>>

Slashes(u) == {i \in DOMAIN u : u[i] = "/"}

\* The characters between the last two separators of u (from its start when
\* it has one separator only).
BeforeLastSlash(u) ==
    LET j == Max(Slashes(u))
        i == Max((Slashes(u) \ {j}) \cup {0})
    IN SubSeq(u, i + 1, j - 1)

\* C7: a call that begins with download_data_from_drive on a URL with a "/"
\* in it fetches exactly prefix + the segment before the last "/"; on a URL
\* without "/" it fetches nothing and raises the wrapped IndexError.
C7_FileId ==
    (trace # <<>> /\ trace[1] = "download_data_from_drive") =>
        /\ args = [url |-> url, prefix |-> prefix]
        /\ IF Slashes(url) = {} THEN
               /\ fetched = <<>>
               /\ "fetch" \notin ToRange(trace)
               /\ step = "download_data_from_drive"
               /\ raised = <<Wrapper, "IndexError">>
           ELSE
               /\ fetched = <<prefix \o BeforeLastSlash(url)>>
               /\ "fetch" \in ToRange(trace)

\* The URL /a/ (the form .../d/<ID>/view): the identifier is a.
C7_Witness ==
    /\ url = <<"/", "a", "/">>
    /\ prefix = <<"Q", "=">>
    /\ fetched = << <<"Q", "=", "a">> >>

\* C8: a config file generate_yolov5m_config has written holds the dedented
\* template with the class count of the last call that wrote it in the nc
\* line and every other line as for any other class count, whatever the file
\* held before.
C8_Overwrites ==
    \A p \in ConfigPaths :
        written[p] # <<>> =>
            LET ref == Dedent(Template("0")) IN
            /\ cfgFiles[p].exists
            /\ Len(cfgFiles[p].lines) = Len(ref)
            /\ cfgFiles[p].lines[1] =
                   L(0, "# Ultralytics AGPL-3.0 License - https://ultralytics.com/license")
            /\ \A i \in DOMAIN ref :
                   cfgFiles[p].lines[i] =
                       IF i = NcLineNo THEN NcLine(Last(written[p])) ELSE ref[i]

\* The default file written three times: twice with 5, then with 10.
C8_Witness == written[DefaultPath] = <<"5", "5", "10">>

\* Which step's output which step consumed, since the caller's call began:
\* step 2 reads the extracted data.yaml, step 3 is given the class count,
\* the trainer of step 4 opens the files its --data and --cfg flags name.
Consumption ==
    (IF "read data.yaml" \in ToRange(trace) THEN {<<"dataset", 2>>} ELSE {})
    \cup (IF "generate_yolov5m_config" \in ToRange(trace)
          THEN {<<"class count", 3>>} ELSE {})
    \cup {<<"dataset", 4>> : k \in {k \in DOMAIN children :
              children[k].ran /\ children[k].dataPath = <<"data.yaml">>}}
    \cup {<<"config", 4>> : k \in {k \in DOMAIN children :
              /\ children[k].ran
              /\ "write config" \in ToRange(trace)
              /\ children[k].cfgPath = OutputPath(lastGen)}}

Producer(artifact) ==
    CASE artifact = "dataset" -> 1
      [] artifact = "class count" -> 2
      [] OTHER -> 3

\* C9 as stated: in a run, what step i produced is consumed by step i+1 only.
C9_Original ==
    InRun => \A c \in Consumption : c[2] = Producer(c[1]) + 1

\* C9 as amended: in a run the class count is consumed by step 3 only and
\* the rendered config by step 4 only, but the extracted dataset is consumed
\* by step 2 and again by step 4: the trainer is given --data ../data.yaml,
\* which from the directory yolov5 is the data.yaml step 2 read.
C9_DatasetReadTwice ==
    InRun =>
        /\ Consumption \subseteq
               {<<"dataset", 2>>, <<"dataset", 4>>, <<"class count", 3>>,
                <<"config", 4>>}
        /\ (children # <<>> /\ children[1].ran) =>
               {<<"dataset", 2>>, <<"dataset", 4>>, <<"config", 4>>}
                   \subseteq Consumption

\* A run whose trainer ran.
C9_Witness ==
    /\ InRun
    /\ children # <<>>
    /\ children[1].ran
    /\ <<"dataset", 4>> \in Consumption

\* C10: every child is handed --cfg ./models/custom_yolov5m.yaml, so a
\* trainer that runs opens yolov5/models/custom_yolov5m.yaml: the file the
\* last generate_yolov5m_config wrote exactly when that call used the default
\* filename, and in a run of initialize_pipeline the file rendered earlier in
\* that run from that run's class count.
C10_FixedCfgPath ==
    \A k \in DOMAIN children :
        LET c == children[k] IN
        /\ c.cmd.cfg = <<".", "models", "custom_yolov5m.yaml">>
        /\ c.ran =>
               /\ c.cfgPath = DefaultPath
               /\ lastGen # "" =>
                      /\ (c.cfgPath = OutputPath(lastGen)) <=> (lastGen = DefaultFilename)
                      /\ lastGen = DefaultFilename =>
                             /\ c.cfgRead = cfgFiles[DefaultPath]
                             /\ c.cfgRead.lines[NcLineNo] =
                                    NcLine(Last(written[DefaultPath]))
        /\ InRun =>
               /\ c.ran
               /\ "write config" \in ToRange(trace)
               /\ lastGen = DefaultFilename
               /\ c.cfgRead.exists
               /\ c.cfgRead.lines[NcLineNo] = NcLine(num_classes)

\* A trainer called after a generate_yolov5m_config that wrote other.yaml:
\* it opens the default file all the same.
C10_Witness ==
    /\ top = "yolo5m_training"
    /\ children # <<>>
    /\ children[1].ran
    /\ lastGen = "other.yaml"

====
